---------------------------- MODULE Spec2Model ----------------------------
(***************************************************************************)
(* Lifecycle detection and snapshot selection of poc-sonar-ti6:            *)
(*   - run_query of the three scripts (retry loop of the GraphQL client),  *)
(*   - detect_inactivity_periods / analyze_repo of the two classifiers,    *)
(*   - pick_pre_death_commit / pick_post_revive_commit of pipeline-pilar3, *)
(*   - parse_dates, prepare_snapshots and the row loop of its main.        *)
(* Time is counted in ticks, DayTicks ticks to the day, so that a commit   *)
(* timestamp is finer than a day as in the source (datetime with seconds). *)
(***************************************************************************)
EXTENDS Integers, Sequences, FiniteSets, TLC

VARIABLES
    \* ---- run_query (one call, of one of the three scripts)
    q_script,     \* which script's run_query is running
    q_pending,    \* the responses the endpoint will still give, in order
    q_attempt,    \* pilar3: attempt (1..RETRY_LIMIT); fase-1: attempt + 1
    q_received,   \* the responses received so far by this call
    q_pc,         \* "loop" while the call is running, "done" once it returned
    q_result,     \* the returned value: None or the data of a 200 response
    \* ---- detect_inactivity_periods / analyze_repo (one call)
    d_repo,          \* the repository node handed to analyze_repo
    d_call,          \* the call made: "detect", "analyze_fase1", ...
    d_commit_dates,  \* the list handed to detect_inactivity_periods
    d_threshold,     \* threshold_days of the call
    d_periods,       \* the periods detect_inactivity_periods returned
    d_analysis,      \* what analyze_repo returned (or raised)
    \* ---- pick_pre_death_commit / pick_post_revive_commit (pipeline-pilar3)
    r_history,    \* the commits of the remote default branch, newest first
    s_op,         \* the selector called: "pre" or "post"
    s_date,       \* its death_date / revive_date argument
    s_call,       \* 1 for the first call, 2 for the repeated call
    s_start,      \* place in search_windows where the repeated call starts
    s_window,     \* place in search_windows of the window to try next
    s_collected,  \* collected: the dict of pick_post_revive_commit, in
                  \* insertion order
    s_fetched,    \* the fetch_commits calls of this call: since and until
    s_seen,       \* the nodes those fetch_commits calls returned
    s_pc,         \* "loop" while the call is running, "done" at its end
    s_result,     \* the SnapshotCommit returned, None, or the exception
    s_previous,   \* the result of the first call, once the second started
    s_unserved,   \* fetches the endpoint did not answer with data in time
    s_retried,    \* some fetch got its data only after a failed attempt
    \* ---- the loop over the input rows of main (pipeline-pilar3)
    m_rows,              \* len(records): the rows main has to process
    m_done,              \* the rows taken from records so far
    m_pc,                \* "loop" in the for loop, "done" after it,
                         \* "crashed" when an exception left main
    m_snapshot_records,  \* snapshot_records
    m_last               \* what prepare_snapshots did for the latest row

qvars == <<q_script, q_pending, q_attempt, q_received, q_pc, q_result>>

dvars == <<d_repo, d_call, d_commit_dates, d_threshold, d_periods, d_analysis>>

svars == <<r_history, s_op, s_date, s_call, s_start, s_window, s_collected,
           s_fetched, s_seen, s_pc, s_result, s_previous, s_unserved,
           s_retried>>

mvars == <<m_rows, m_done, m_pc, m_snapshot_records, m_last>>

vars == <<qvars, dvars, svars, mvars>>

\* the variables a call of run_query leaves alone
not_q == <<dvars, svars, mvars>>

\* the variables a call of the classifier leaves alone
not_d == <<qvars, svars, mvars>>

\* the variables a call of a selector leaves alone
not_s == <<qvars, dvars, mvars>>

\* the variables the loop of main leaves alone
not_m == <<qvars, dvars, svars>>

--------------------------------------------------------------------------
(* Bounds of the model *)

\* ticks per day: the resolution of a timestamp inside a day
DayTicks == 2

\* number of responses the endpoint has ready for one run_query call
MaxResponses == 4

\* number of commit nodes of a repository handed to analyze_repo
MaxHistory == 3

\* number of nodes of a page an arbitrary endpoint returns to
\* pick_pre_death_commit
MaxPage == 2

\* number of distinct commits on or after revive_date an arbitrary endpoint
\* has for pick_post_revive_commit
MaxCommits == 11

\* the pages of that endpoint start and end at multiples of ChunkStep
ChunkStep == 3

\* fetch_commits calls of a run whose query may fail
MaxFailures == 1

\* number of rows of the input table of main
MaxRows == 2

--------------------------------------------------------------------------
(* Python values *)

None == "None"

\* an optional value that is not a string: None is <<>>, a value v is <<v>>
Null == <<>>

Some(v) == <<v>>

Range(s) == {s[i] : i \in 1..Len(s)}

\* all sequences over S of length n
RECURSIVE SeqsOfLen(_, _)
SeqsOfLen(S, n) ==
    IF n = 0 THEN {<<>>}
    ELSE {Append(s, x) : s \in SeqsOfLen(S, n - 1), x \in S}

SeqsUpTo(S, n) == UNION {SeqsOfLen(S, k) : k \in 0..n}

Min(a, b) == IF a <= b THEN a ELSE b

--------------------------------------------------------------------------
(* Timestamps and commit nodes *)

\* the committedDate of a node as the endpoint sends it: an ISO 8601 string
\* of the instant t (in ticks), no such field, or a string that is no date
IsoDate(t) == [tag |-> "iso", t |-> t]

MissingDate == [tag |-> "missing", t |-> 0]

GarbledDate == [tag |-> "garbled", t |-> 0]

\* `if c.get("committedDate")` / `if not commit_date_raw`: the field is there
\* and not empty
HasDate(node) == node.committedDate.tag # "missing"

\* datetime.fromisoformat(s.replace("Z", "+00:00")) succeeds
Parses(node) == node.committedDate.tag = "iso"

\* the datetime fromisoformat returns for a node whose date parses
fromisoformat(node) == node.committedDate.t

\* timedelta.days of the difference later - earlier
days(later, earlier) == (later - earlier) \div DayTicks

\* strftime("%Y-%m-%d"): the calendar day of an instant
strftime(t) == t \div DayTicks

--------------------------------------------------------------------------
(* detect_inactivity_periods and analyze_repo: pipeline-fase-1.py 63-107,  *)
(* pipeline-unificado-2022.py 64-114                                       *)

\* default of threshold_days
THRESHOLD_DAYS == 180

\* list.sort(): ascending and stable, so a date comes after the smaller
\* ones and after the equal ones that stood before it
sort_dates(dates) ==
    LET n == Len(dates)
        place == [i \in 1..n |-> 1 + Cardinality({j \in 1..n :
                    dates[j] < dates[i] \/ (dates[j] = dates[i] /\ j < i)})]
        at == [r \in 1..n |-> CHOOSE i \in 1..n : place[i] = r]
    IN [r \in 1..n |-> dates[at[r]]]

\* a comparison that leaves out the gap of exactly threshold_days
long_gap_strict(delta, threshold_days) == delta > threshold_days

\* the comparison of a gap with the threshold
long_gap(delta, threshold_days) == delta >= threshold_days

\* the loop `for i in range(1, len(commit_dates))` from index i on
\* (1-based: i is the later commit of the pair), periods so far in `periods`
RECURSIVE scan_gaps(_, _, _, _)
scan_gaps(commit_dates, threshold_days, i, periods) ==
    IF i > Len(commit_dates) THEN periods
    ELSE LET delta == days(commit_dates[i], commit_dates[i - 1])
         IN scan_gaps(commit_dates, threshold_days, i + 1,
                      IF long_gap(delta, threshold_days)
                      THEN Append(periods, <<commit_dates[i - 1], commit_dates[i]>>)
                      ELSE periods)

\* detect_inactivity_periods: the list as the call leaves it (sorted in
\* place) and the periods returned
detect_inactivity_periods(commit_dates, threshold_days) ==
    LET sorted == sort_dates(commit_dates)
    IN [commit_dates |-> sorted,
        periods |-> scan_gaps(sorted, threshold_days, 2, <<>>)]

\* what analyze_repo gives back
NoData == [kind |-> "none", morte |-> Null, ressurreicao |-> Null,
           morreu_de_novo |-> 0, commits |-> 0]

Raised(exc) == [kind |-> exc, morte |-> Null, ressurreicao |-> Null,
                morreu_de_novo |-> 0, commits |-> 0]

Lifecycle(morte, ressurreicao, morreu_de_novo, commits) ==
    [kind |-> "record", morte |-> morte, ressurreicao |-> ressurreicao,
     morreu_de_novo |-> morreu_de_novo, commits |-> commits]

\* the dates of the nodes, in the order of the nodes
dates_of(nodes) == [i \in 1..Len(nodes) |-> fromisoformat(nodes[i])]

\* analyze_repo of pipeline-fase-1.py
analyze_repo_fase1(repo) ==
    IF ~repo.defaultBranchRef THEN Raised("AttributeError")
    ELSE IF repo.nodes = <<>> THEN NoData
    ELSE LET dated == SelectSeq(repo.nodes, HasDate) IN
         IF \E i \in 1..Len(dated) : ~Parses(dated[i]) THEN Raised("ValueError")
         ELSE LET commit_dates == sort_dates(dates_of(dated))
                  inactivity_periods ==
                      detect_inactivity_periods(commit_dates, THRESHOLD_DAYS).periods
              IN IF inactivity_periods = <<>> THEN NoData
                 ELSE LET morte_dt == inactivity_periods[1][1]
                          revive_dt == inactivity_periods[1][2]
                          morreu_de_novo ==
                              IF Len(inactivity_periods) > 1 THEN 1 ELSE 0
                          has_commits_after_revive ==
                              \E i \in 1..Len(commit_dates) :
                                  commit_dates[i] > revive_dt
                      IN Lifecycle(Some(strftime(morte_dt)),
                                   IF has_commits_after_revive
                                   THEN Some(strftime(revive_dt)) ELSE Null,
                                   morreu_de_novo, Len(commit_dates))

\* analyze_repo of pipeline-unificado-2022.py
analyze_repo_unificado(repo) ==
    IF ~repo.defaultBranchRef THEN Raised("AttributeError")
    ELSE IF repo.nodes = <<>> THEN NoData
    ELSE IF \E i \in 1..Len(repo.nodes) : ~HasDate(repo.nodes[i])
    THEN Raised("KeyError")
    ELSE IF \E i \in 1..Len(repo.nodes) : ~Parses(repo.nodes[i])
    THEN Raised("ValueError")
    ELSE LET commit_dates == sort_dates(dates_of(repo.nodes))
             inactivity_periods ==
                 detect_inactivity_periods(commit_dates, THRESHOLD_DAYS).periods
         IN IF inactivity_periods = <<>>
            THEN Lifecycle(Null, Null, 0, Len(commit_dates))
            ELSE LET morte == strftime(inactivity_periods[1][1])
                     ressurreicao == strftime(inactivity_periods[1][2])
                     morreu_de_novo ==
                         IF Len(inactivity_periods) > 1 THEN 1 ELSE 0
                 IN Lifecycle(Some(morte), Some(ressurreicao),
                              morreu_de_novo, Len(commit_dates))

\* the days around which the commits of a classified repository lie
DaysOfInterest == {0, THRESHOLD_DAYS - 1, THRESHOLD_DAYS, 2 * THRESHOLD_DAYS}

\* the instants a commit of a classified repository can have
Instants == {d * DayTicks + f : d \in DaysOfInterest, f \in 0..(DayTicks - 1)}

\* thresholds a call of detect_inactivity_periods is made with
Thresholds == {1, THRESHOLD_DAYS, THRESHOLD_DAYS + 1}

Nodes ==
    {[committedDate |-> IsoDate(t)] : t \in Instants}
      \cup {[committedDate |-> MissingDate], [committedDate |-> GarbledDate]}

\* no classifier call is under way
IdleClassifier ==
    /\ d_repo = [defaultBranchRef |-> FALSE, nodes |-> <<>>]
    /\ d_call = "idle"
    /\ d_commit_dates = <<>>
    /\ d_threshold = THRESHOLD_DAYS
    /\ d_periods = <<>>
    /\ d_analysis = NoData

InitClassifier ==
    /\ d_repo \in
         {[defaultBranchRef |-> FALSE, nodes |-> <<>>]}
           \cup {[defaultBranchRef |-> TRUE, nodes |-> nodes] :
                    nodes \in SeqsUpTo(Nodes, MaxHistory)}
    /\ d_call = "none"
    /\ d_commit_dates = <<>>
    /\ d_threshold = THRESHOLD_DAYS
    /\ d_periods = <<>>
    /\ d_analysis = NoData

\* a call detect_inactivity_periods(commit_dates, threshold_days) on the
\* timestamps of the repository, in the order the endpoint lists them
Detect ==
    /\ d_call = "none"
    /\ d_repo.defaultBranchRef
    /\ \A i \in 1..Len(d_repo.nodes) : Parses(d_repo.nodes[i])
    /\ \E threshold_days \in Thresholds :
          LET out == detect_inactivity_periods(dates_of(d_repo.nodes),
                                               threshold_days)
          IN /\ d_threshold' = threshold_days
             /\ d_commit_dates' = out.commit_dates
             /\ d_periods' = out.periods
    /\ d_call' = "detect"
    /\ UNCHANGED <<d_repo, d_analysis>>
    /\ UNCHANGED not_d

AnalyzeFase1 ==
    /\ d_call = "none"
    /\ d_call' = "analyze_fase1"
    /\ d_analysis' = analyze_repo_fase1(d_repo)
    /\ UNCHANGED <<d_repo, d_commit_dates, d_threshold, d_periods>>
    /\ UNCHANGED not_d

AnalyzeUnificado ==
    /\ d_call = "none"
    /\ d_call' = "analyze_unificado"
    /\ d_analysis' = analyze_repo_unificado(d_repo)
    /\ UNCHANGED <<d_repo, d_commit_dates, d_threshold, d_periods>>
    /\ UNCHANGED not_d

NextClassifier == Detect \/ AnalyzeFase1 \/ AnalyzeUnificado

--------------------------------------------------------------------------
(* run_query: pipeline-pilar3.py 64-89, pipeline-fase-1.py 41-60,          *)
(* pipeline-unificado-2022.py 40-62                                        *)

RETRY_LIMIT == 3

\* range(3) of pipeline-fase-1.py
FASE1_ATTEMPTS == 3

Scripts == {"pilar3", "fase1", "unificado"}

\* payloads of a 200 response without errors
Payloads == {"d1", "d2"}

\* what the endpoint can answer to one request
Responses ==
    [status : {200}, errors : {FALSE}, data : Payloads]
      \cup [status : {200}, errors : {TRUE}, data : {None}]
      \cup [status : {502, 403, 500}, errors : {FALSE}, data : {None}]

\* a loop that waits on 403 without using up an attempt
respond_pilar3_uncounted_403(response) ==
    IF response.status = 200
    THEN IF response.errors THEN "return_none" ELSE "return_data"
    ELSE IF response.status = 403 THEN "same_attempt" ELSE "next_attempt"

\* a loop that returns None on the first 403
respond_pilar3_gives_up_on_403(response) ==
    IF response.status = 200
    THEN IF response.errors THEN "return_none" ELSE "return_data"
    ELSE IF response.status = 403 THEN "return_none" ELSE "next_attempt"

\* a loop that takes a 200 with errors for one more failed attempt
respond_pilar3_retry_errors(response) ==
    IF response.status = 200 /\ ~response.errors THEN "return_data"
    ELSE "next_attempt"

\* body of the for loop of pipeline-pilar3.py for one response:
\* what the iteration does with it
respond_pilar3(response) ==
    IF response.status = 200
    THEN IF response.errors THEN "return_none" ELSE "return_data"
    ELSE IF response.status = 502 THEN "next_attempt"   \* sleep(5); continue
    ELSE IF response.status = 403 THEN "next_attempt"   \* sleep(60); continue
    ELSE "next_attempt"                                 \* sleep(10)

\* body of the for loop of pipeline-fase-1.py
respond_fase1(response) ==
    IF response.status = 200
    THEN IF response.errors THEN "return_none" ELSE "return_data"
    ELSE IF response.status = 502 THEN "next_attempt"
    ELSE IF response.status = 403 THEN "next_attempt"
    ELSE "next_attempt"

\* body of the while True loop of pipeline-unificado-2022.py
respond_unificado(response) ==
    IF response.status = 200
    THEN IF response.errors THEN "return_none" ELSE "return_data"
    ELSE IF response.status = 502 THEN "same_attempt"   \* sleep(5), loop again
    ELSE IF response.status = 403 THEN "same_attempt"   \* sleep(60), loop again
    ELSE "return_none"

respond(script, response) ==
    CASE script = "pilar3" -> respond_pilar3(response)
      [] script = "fase1" -> respond_fase1(response)
      [] script = "unificado" -> respond_unificado(response)

\* number of iterations the loop of a script allows; 0: no limit (while True)
attempts(script) ==
    CASE script = "pilar3" -> RETRY_LIMIT
      [] script = "fase1" -> FASE1_ATTEMPTS
      [] script = "unificado" -> 0

\* one iteration of the loop of run_query: the state after `response`
\* arrived in iteration `attempt`
iteration(script, response, attempt) ==
    LET what == respond(script, response) IN
    CASE what = "return_data" ->
            [pc |-> "done", attempt |-> attempt, result |-> response.data]
      [] what = "return_none" ->
            [pc |-> "done", attempt |-> attempt, result |-> None]
      [] what = "same_attempt" ->
            [pc |-> "loop", attempt |-> attempt, result |-> None]
      [] what = "next_attempt" ->
            IF attempts(script) # 0 /\ attempt >= attempts(script)
            THEN [pc |-> "done", attempt |-> attempt, result |-> None]
            ELSE [pc |-> "loop", attempt |-> attempt + 1, result |-> None]

\* no run_query call is under way
IdleQuery ==
    /\ q_script = "pilar3"
    /\ q_pending = <<>>
    /\ q_attempt = 1
    /\ q_received = <<>>
    /\ q_pc = "idle"
    /\ q_result = None

InitQuery ==
    /\ q_script \in Scripts
    /\ q_pending \in SeqsOfLen(Responses, MaxResponses)
    /\ q_attempt = 1
    /\ q_received = <<>>
    /\ q_pc = "loop"
    /\ q_result = None

\* requests.post and the handling of its response
Request(script) ==
    /\ q_script = script
    /\ q_pc = "loop"
    /\ q_pending # <<>>
    /\ LET response == Head(q_pending)
           after == iteration(script, response, q_attempt)
       IN /\ q_received' = Append(q_received, response)
          /\ q_pending' = Tail(q_pending)
          /\ q_pc' = after.pc
          /\ q_attempt' = after.attempt
          /\ q_result' = after.result
    /\ UNCHANGED q_script
    /\ UNCHANGED not_q

run_query_pilar3 == Request("pilar3")

run_query_fase1 == Request("fase1")

run_query_unificado == Request("unificado")

NextQuery == run_query_pilar3 \/ run_query_fase1 \/ run_query_unificado

--------------------------------------------------------------------------
(* pick_pre_death_commit and pick_post_revive_commit:                      *)
(* pipeline-pilar3.py 116-177                                              *)

\* search_windows of pick_pre_death_commit, in days
PRE_WINDOWS == <<90, 180, 365, 730>>

\* search_windows of pick_post_revive_commit, in days
POST_WINDOWS == <<30, 90, 180, 365, 730>>

\* `if len(ordered) >= 10`
MIN_COMMITS == 10

\* `return ordered[9]` (0-based)
PICK_INDEX == 9

\* node.get("oid") of a node without oid
NoOid == 0

search_windows(op) == IF op = "pre" THEN PRE_WINDOWS ELSE POST_WINDOWS

\* dt.timedelta(days=n)
timedelta(n) == n * DayTicks

SnapshotCommit(sha, committed_at) == [sha |-> sha, committed_at |-> committed_at]

\* what a selector gives back: a commit, None, or an exception
Returned(commit) == [kind |-> "commit", commit |-> commit]

ReturnedNone == [kind |-> "none", commit |-> SnapshotCommit(NoOid, 0)]

Throws(exc) == [kind |-> exc, commit |-> SnapshotCommit(NoOid, 0)]

\* node["committedDate"] finds the key
HasKey(node) == node.committedDate.tag # "missing"

\* utc_from_str(node["committedDate"])
utc_from_str(node) == node.committedDate.t

\* sorted(..., key=committed_at) / list.sort(key=committed_at, reverse=True):
\* a stable sort, so an element comes after those with a smaller key
\* (greater, with reverse) and after the equal ones that stood before it
sort_commits(commits, reverse) ==
    LET n == Len(commits)
        place == <<>> \o
                 [i \in 1..n |-> 1 + Cardinality({j \in 1..n :
                    \/ IF reverse
                       THEN commits[j].committed_at > commits[i].committed_at
                       ELSE commits[j].committed_at < commits[i].committed_at
                    \/ /\ commits[j].committed_at = commits[i].committed_at
                       /\ j < i})]
        at == [r \in 1..n |-> CHOOSE i \in 1..n : place[i] = r]
    IN [r \in 1..n |-> commits[at[r]]]

\* a loop that appends every node, whatever its date
before_boundary_unchecked(committed_at, end_boundary) == TRUE

\* pick_pre_death_commit: `if committed_at <= end_boundary`
before_boundary(committed_at, end_boundary) == committed_at <= end_boundary

\* pick_pre_death_commit: the exception the loop body (130-139) raises on
\* a node: no committedDate key, a date that does not parse, or no oid key
\* on a node that passed the date test; "" when it raises none
pre_death_exception(node, end_boundary) ==
    IF ~HasKey(node) THEN "KeyError"
    ELSE IF ~Parses(node) THEN "ValueError"
    ELSE IF before_boundary(utc_from_str(node), end_boundary) /\ node.oid = NoOid
    THEN "KeyError"
    ELSE ""

\* pick_pre_death_commit: the loop over the nodes of one window (129-139):
\* the exception of the first node that raises one, else the list parsed
parse_pre_death(commits, end_boundary) ==
    LET raising == {i \in 1..Len(commits) :
                       pre_death_exception(commits[i], end_boundary) # ""}
        kept == SelectSeq(commits,
                    LAMBDA node : before_boundary(utc_from_str(node), end_boundary))
    IN IF raising # {}
       THEN [exc |-> pre_death_exception(
                         commits[CHOOSE i \in raising : \A j \in raising : i <= j],
                         end_boundary),
             parsed |-> <<>>]
       ELSE [exc |-> "",
             parsed |-> [i \in 1..Len(kept) |->
                            SnapshotCommit(kept[i].oid, utc_from_str(kept[i]))]]

\* a sort without reverse=True
latest_of_earliest_first(parsed) == sort_commits(parsed, FALSE)[1]

\* pick_pre_death_commit: `parsed.sort(...); return parsed[0]`
latest_of(parsed) == sort_commits(parsed, TRUE)[1]

\* pick_pre_death_commit: one turn of the loop over search_windows, given
\* the commits fetch_commits returned for the window (127-142)
pre_death_window(commits, death_date) ==
    LET end_boundary == death_date + timedelta(1) IN
    IF commits = <<>> THEN [then |-> "continue", result |-> ReturnedNone]
    ELSE LET loop == parse_pre_death(commits, end_boundary) IN
         IF loop.exc # "" THEN [then |-> "raise", result |-> Throws(loop.exc)]
         ELSE IF loop.parsed # <<>>
         THEN [then |-> "return", result |-> Returned(latest_of(loop.parsed))]
         ELSE [then |-> "continue", result |-> ReturnedNone]

\* pick_post_revive_commit: `if committed_at >= revive_date`
on_or_after(committed_at, revive_date) == committed_at >= revive_date

\* pick_post_revive_commit: the node reaches `collected[sha] = ...` (161-168)
reaches_collected(node, revive_date) ==
    /\ HasDate(node)
    /\ on_or_after(utc_from_str(node), revive_date)
    /\ node.oid # NoOid

\* a list in place of the dict: every put is kept
dict_put_all_keeps_all(collected, puts) == collected \o puts

\* `collected[sha] = commit` for each of `puts` in turn: a key the dict
\* holds keeps its place, a new key goes to the end, and a key holds the
\* value put last
dict_put_all(collected, puts) ==
    LET held == {collected[i].sha : i \in 1..Len(collected)}
        last_put(sha) ==
            puts[CHOOSE j \in 1..Len(puts) :
                    /\ puts[j].sha = sha
                    /\ \A k \in (j + 1)..Len(puts) : puts[k].sha # sha]
        places == [j \in 1..Len(puts) |-> j]
        first_puts == SelectSeq(places,
                          LAMBDA j : /\ puts[j].sha \notin held
                                     /\ \A k \in 1..(j - 1) : puts[k].sha # puts[j].sha)
    IN [i \in 1..Len(collected) |->
           IF \E j \in 1..Len(puts) : puts[j].sha = collected[i].sha
           THEN last_put(collected[i].sha) ELSE collected[i]]
       \o [i \in 1..Len(first_puts) |-> last_put(puts[first_puts[i]].sha)]

\* pick_post_revive_commit: the loop over the nodes of one window (160-173):
\* utc_from_str raises on a date that does not parse, else the nodes that
\* reach `collected[sha] = ...` are put into the dict in turn
collect_post_revive(commits, revive_date, collected) ==
    IF \E i \in 1..Len(commits) : HasDate(commits[i]) /\ ~Parses(commits[i])
    THEN [exc |-> "ValueError", collected |-> collected]
    ELSE LET kept == SelectSeq(commits,
                         LAMBDA node : reaches_collected(node, revive_date))
         IN [exc |-> "",
             collected |->
                 dict_put_all(collected,
                     [i \in 1..Len(kept) |->
                         SnapshotCommit(kept[i].oid, utc_from_str(kept[i]))])]

\* the values of the dict as they stand, unsorted
ordered_unsorted(collected) == collected

\* pick_post_revive_commit: `ordered = sorted(collected.values(), ...)`
ordered_of(collected) == sort_commits(collected, FALSE)

\* a loop that takes note of ordered[9] and goes on to the next window
post_revive_window_searches_on(commits, revive_date, collected) ==
    IF commits = <<>>
    THEN [then |-> "continue", collected |-> collected, result |-> ReturnedNone]
    ELSE LET loop == collect_post_revive(commits, revive_date, collected) IN
         IF loop.exc # ""
         THEN [then |-> "raise", collected |-> loop.collected,
               result |-> Throws(loop.exc)]
         ELSE LET ordered == ordered_of(loop.collected) IN
              [then |-> "continue", collected |-> loop.collected,
               result |-> IF Len(ordered) >= MIN_COMMITS
                          THEN Returned(ordered[PICK_INDEX + 1])
                          ELSE ReturnedNone]

\* pick_post_revive_commit: one turn of the loop over search_windows, given
\* the commits fetch_commits returned for the window (158-176)
post_revive_window(commits, revive_date, collected) ==
    IF commits = <<>>
    THEN [then |-> "continue", collected |-> collected, result |-> ReturnedNone]
    ELSE LET loop == collect_post_revive(commits, revive_date, collected) IN
         IF loop.exc # ""
         THEN [then |-> "raise", collected |-> loop.collected,
               result |-> Throws(loop.exc)]
         ELSE LET ordered == ordered_of(loop.collected) IN
              IF Len(ordered) >= MIN_COMMITS
              THEN [then |-> "return", collected |-> loop.collected,
                    result |-> Returned(ordered[PICK_INDEX + 1])]
              ELSE [then |-> "continue", collected |-> loop.collected,
                    result |-> ReturnedNone]

\* the since and until a selector hands to fetch_commits for a window
since_of(op, date, window) == IF op = "pre" THEN date - timedelta(window) ELSE date

until_of(op, date, window) ==
    IF op = "pre" THEN date + timedelta(1) ELSE date + timedelta(window)

\* one turn of the loop over search_windows of either selector
window_turn(op, commits, date, collected) ==
    IF op = "pre"
    THEN LET turn == pre_death_window(commits, date)
         IN [then |-> turn.then, collected |-> collected, result |-> turn.result]
    ELSE post_revive_window(commits, date, collected)

\* no selector call is under way
IdleSelector ==
    /\ r_history = <<>>
    /\ s_op = "pre"
    /\ s_date = 0
    /\ s_call = 0
    /\ s_start = 1
    /\ s_window = 1
    /\ s_collected = <<>>
    /\ s_fetched = <<>>
    /\ s_seen = {}
    /\ s_pc = "idle"
    /\ s_result = ReturnedNone
    /\ s_previous = ReturnedNone
    /\ s_unserved = 0
    /\ s_retried = FALSE

\* the dates a selector is called with: a midnight (parse_dates) and an
\* instant inside a day
SelectorDates == {timedelta(800), timedelta(800) + 1}

\* the effect of one fetch_commits call that returned `commits` on the call
\* of the selector: the window is logged and the turn of the loop is taken
Turn(commits) ==
    \E turn \in {window_turn(s_op, commits, s_date, s_collected)} :
        LET window == search_windows(s_op)[s_window]
            last == s_window = Len(search_windows(s_op))
        IN /\ s_fetched' = Append(s_fetched,
                                  [since |-> since_of(s_op, s_date, window),
                                   until |-> until_of(s_op, s_date, window)])
           /\ s_seen' = s_seen \cup Range(commits)
           /\ s_collected' = turn.collected
           /\ s_window' = IF turn.then = "continue" /\ ~last
                          THEN s_window + 1 ELSE s_window
           /\ s_pc' = IF turn.then = "continue" /\ ~last THEN "loop" ELSE "done"
           /\ s_result' = turn.result

--------------------------------------------------------------------------
(* The selectors against an endpoint that may return any page *)

\* nodes an arbitrary endpoint may return to pick_pre_death_commit(d):
\* after the boundary d + 1 day, twice exactly on it, long before d,
\* and malformed ones
PreNodes(d) ==
    {[oid |-> 1, committedDate |-> IsoDate(d + timedelta(1) + 1)],
     [oid |-> 2, committedDate |-> IsoDate(d + timedelta(1))],
     [oid |-> 3, committedDate |-> IsoDate(d + timedelta(1))],
     [oid |-> 4, committedDate |-> IsoDate(d - timedelta(100))],
     [oid |-> 5, committedDate |-> MissingDate],
     [oid |-> 6, committedDate |-> GarbledDate],
     [oid |-> NoOid, committedDate |-> IsoDate(d)]}

PrePages(d) == SeqsUpTo(PreNodes(d), MaxPage)

\* the i-th of the commits an arbitrary endpoint may return to
\* pick_post_revive_commit(r): the first exactly at r, the later ones a
\* tick apart except two pairs with equal timestamps
PostCommit(r, i) ==
    [oid |-> i,
     committedDate |-> IsoDate(r + (IF i \in {4, MaxCommits} THEN i - 2 ELSE i - 1))]

\* nodes pick_post_revive_commit has to pass over
PostJunk(r) ==
    {[oid |-> MaxCommits + 1, committedDate |-> IsoDate(r - 1)],
     [oid |-> MaxCommits + 2, committedDate |-> MissingDate],
     [oid |-> MaxCommits + 3, committedDate |-> GarbledDate],
     [oid |-> NoOid, committedDate |-> IsoDate(r + 1)]}

\* the commits lo..hi, oldest first or newest first
Chunk(r, lo, hi, newest_first) ==
    [i \in 1..(hi - lo + 1) |->
        PostCommit(r, IF newest_first THEN hi + 1 - i ELSE lo + i - 1)]

Chunks(r) ==
    {Chunk(r, lo, hi, nf) :
        lo \in {l \in 1..MaxCommits : (l - 1) % ChunkStep = 0},
        hi \in {h \in 1..MaxCommits : h % ChunkStep = 0 \/ h = MaxCommits},
        nf \in BOOLEAN}

\* a page is a chunk, or a junk node alone or inside the first chunk
PostPages(r) ==
    Chunks(r)
      \cup {<<j>> : j \in PostJunk(r)}
      \cup {<<PostCommit(r, 1), j>> \o Chunk(r, 2, ChunkStep, FALSE) :
               j \in PostJunk(r)}

InitAnyPage ==
    /\ r_history = <<>>
    /\ s_op \in {"pre", "post"}
    /\ s_date \in SelectorDates
    /\ s_call = 1
    /\ s_start = 1
    /\ s_window = 1
    /\ s_collected = <<>>
    /\ s_fetched = <<>>
    /\ s_seen = {}
    /\ s_pc = "loop"
    /\ s_result = ReturnedNone
    /\ s_previous = ReturnedNone
    /\ s_unserved = 0
    /\ s_retried = FALSE

\* pick_pre_death_commit fetches a window and gets any page
PreDeathAnyPage ==
    /\ s_op = "pre"
    /\ s_pc = "loop"
    /\ \E commits \in PrePages(s_date) : Turn(commits)
    /\ UNCHANGED <<r_history, s_op, s_date, s_call, s_start, s_previous,
                   s_unserved, s_retried>>
    /\ UNCHANGED not_s

\* pick_post_revive_commit fetches a window and gets any page
PostReviveAnyPage ==
    /\ s_op = "post"
    /\ s_pc = "loop"
    /\ \E commits \in PostPages(s_date) : Turn(commits)
    /\ UNCHANGED <<r_history, s_op, s_date, s_call, s_start, s_previous,
                   s_unserved, s_retried>>
    /\ UNCHANGED not_s

NextAnyPage == PreDeathAnyPage \/ PostReviveAnyPage

--------------------------------------------------------------------------
(* The selectors, called twice, against a remote history that does not
   change and an endpoint that may answer a request with a failure *)

\* `first: int = 100` of fetch_commits
FIRST == 100

\* history(first: $first, since: $since, until: $until) of
\* COMMITS_WINDOW_QUERY on the remote: the newest `first` commits of the
\* history (kept newest first) committed from `since` to `until`
history_page(history, since, until, first) ==
    LET within == SelectSeq(history,
                      LAMBDA node : /\ node.committedDate.t >= since
                                    /\ node.committedDate.t <= until)
    IN SubSeq(within, 1, Min(first, Len(within)))

\* the payload of a 200 response to COMMITS_WINDOW_QUERY
WindowData == "d1"

\* run_query of pipeline-pilar3.py from iteration `attempt` on, the
\* endpoint answering its requests with `responses` in turn
RECURSIVE run_query(_, _)
run_query(responses, attempt) ==
    LET after == iteration("pilar3", Head(responses), attempt) IN
    IF after.pc = "done" THEN after.result
    ELSE run_query(Tail(responses), after.attempt)

\* fetch_commits: the endpoint answers the requests of run_query with
\* `troubles` and from then on with the page of the window
fetch_commits(history, since, until, troubles) ==
    LET ok == [status |-> 200, errors |-> FALSE, data |-> WindowData]
        data == run_query(troubles \o <<ok>>, 1)
    IN IF data = None THEN <<>>
       ELSE history_page(history, since, until, FIRST)

\* answers of the endpoint that are no data
Trouble(status) == [status |-> status, errors |-> FALSE, data |-> None]

ErrorsPayload == [status |-> 200, errors |-> TRUE, data |-> None]

\* what the endpoint may answer before it answers with the page
TroubleScripts ==
    {<<>>,
     <<Trouble(502)>>,
     <<Trouble(403), Trouble(500)>>,
     <<Trouble(502), Trouble(403), Trouble(502)>>,
     <<Trouble(403), Trouble(403), Trouble(403)>>,
     <<ErrorsPayload>>}

\* the i-th commit, in order of time, of a history whose first commit is
\* at `from`: two commits to an instant
HistoryCommit(from, first_oid, i) ==
    [oid |-> first_oid + i - 1,
     committedDate |-> IsoDate(from + (i - 1) \div 2)]

\* a history, newest first, of `counts[k]` commits from `starts[k]` on
RECURSIVE History(_, _, _)
History(starts, counts, first_oid) ==
    IF starts = <<>> THEN <<>>
    ELSE History(Tail(starts), Tail(counts), first_oid + Head(counts))
           \o [i \in 1..Head(counts) |->
                  HistoryCommit(Head(starts), first_oid, Head(counts) + 1 - i)]

\* the date both calls of the selector are given
RemoteDate == timedelta(800)

\* remote histories around revive_date r: commits in the 30-day window,
\* in the rest of the 90-day window and in the rest of the 180-day window;
\* too few commits, enough in a later window, a tenth commit with a twin,
\* and a 90-day window of more than FIRST commits
PostHistories(r) ==
    {History(<<r, r + timedelta(30) + 1, r + timedelta(90) + 1>>, counts, 1) :
        counts \in {<<3, 3, 2>>, <<4, 4, 4>>, <<7, 2, 4>>, <<7, 6, 3>>,
                    <<12, 0, 2>>,
                    <<7, FIRST, 0>>}}

\* remote histories around death_date d: commits 400 days before it,
\* 100 days before it, on the boundary d + 1 day and after the boundary
PreHistories(d) ==
    {History(<<d - timedelta(400), d - timedelta(100), d + timedelta(1),
               d + timedelta(1) + 1>>, counts, 1) :
        counts \in {<<0, 0, 0, 2>>, <<2, 0, 0, 2>>, <<2, 3, 0, 0>>,
                    <<1, 2, 2, 1>>}}

InitRemote ==
    /\ s_op \in {"pre", "post"}
    /\ s_date = RemoteDate
    /\ r_history \in (IF s_op = "pre" THEN PreHistories(s_date)
                      ELSE PostHistories(s_date))
    /\ s_start \in (IF s_op = "pre" THEN {1} ELSE 1..Len(POST_WINDOWS))
    /\ s_call = 1
    /\ s_window = 1
    /\ s_collected = <<>>
    /\ s_fetched = <<>>
    /\ s_seen = {}
    /\ s_pc = "loop"
    /\ s_result = ReturnedNone
    /\ s_previous = ReturnedNone
    /\ s_unserved = 0
    /\ s_retried = FALSE

\* the endpoint gives the page within the RETRY_LIMIT requests of a call
\* of run_query, and no errors payload before it
Served(troubles) ==
    /\ Len(troubles) < RETRY_LIMIT
    /\ \A i \in 1..Len(troubles) : troubles[i].status # 200

\* one turn of the loop of a selector: fetch_commits for the window, the
\* endpoint troubled as in `troubles`, then the rest of the turn
Fetch(troubles) ==
    LET window == search_windows(s_op)[s_window] IN
    /\ s_pc = "loop"
    /\ s_unserved' = IF Served(troubles) THEN s_unserved ELSE s_unserved + 1
    /\ s_unserved' <= MaxFailures
    /\ s_retried' = (s_retried \/ (Served(troubles) /\ troubles # <<>>))
    /\ Turn(fetch_commits(r_history, since_of(s_op, s_date, window),
                          until_of(s_op, s_date, window), troubles))
    /\ UNCHANGED <<r_history, s_op, s_date, s_call, s_start, s_previous>>
    /\ UNCHANGED not_s

FetchPreDeath == s_op = "pre" /\ \E troubles \in TroubleScripts : Fetch(troubles)

FetchPostRevive == s_op = "post" /\ \E troubles \in TroubleScripts : Fetch(troubles)

\* the selector is called again with the same arguments; a second search
\* of pick_post_revive_commit may start at a wider window of its ladder
SecondCall ==
    /\ s_pc = "done"
    /\ s_call = 1
    /\ s_call' = 2
    /\ s_previous' = s_result
    /\ s_window' = s_start
    /\ s_collected' = <<>>
    /\ s_fetched' = <<>>
    /\ s_seen' = {}
    /\ s_pc' = "loop"
    /\ s_result' = ReturnedNone
    /\ UNCHANGED <<r_history, s_op, s_date, s_start, s_unserved, s_retried>>
    /\ UNCHANGED not_s

NextRemote == FetchPreDeath \/ FetchPostRevive \/ SecondCall

--------------------------------------------------------------------------
(* parse_dates, prepare_snapshots and the loop over the rows of main of
   pipeline-pilar3.py *)

\* str(row.get(column, "")).strip() of a cell: a %Y-%m-%d date, nothing,
\* or a text strptime does not accept ("nan", "None", another format)
DateCell(day) == [tag |-> "date", day |-> day]

EmptyCell == [tag |-> "empty", day |-> 0]

GarbledCell == [tag |-> "garbled", day |-> 0]

\* dt.datetime.strptime(s, "%Y-%m-%d").replace(tzinfo=utc): midnight
strptime(cell) == cell.day * DayTicks

\* parse_dates(row): the pair it returns, or the exception it raises
parse_dates(row) ==
    IF row.revive.tag = "empty"
    THEN [exc |-> "PipelineError", death |-> 0, revive |-> 0]
    ELSE IF row.revive.tag # "date"
    THEN [exc |-> "PipelineError", death |-> 0, revive |-> 0]
    ELSE LET revive_date == strptime(row.revive) IN
         [exc |-> "",
          death |-> IF row.morte.tag = "date" THEN strptime(row.morte)
                    ELSE revive_date - timedelta(1),
          revive |-> revive_date]

\* row.get("Nome") or row.get("nameWithOwner"): an owner/name, a text
\* without "/", nothing, or the float NaN pandas gives for an empty cell
RepoNames == {"o/a", "o/b", "noslash", "", "nan"}

\* `not repo_full_name`
falsy_name(repo_full_name) == repo_full_name = ""

\* `"/" not in repo_full_name`, for a str
no_slash(repo_full_name) == repo_full_name \notin {"o/a", "o/b"}

\* a selector of pipeline-pilar3.py from place `window` of search_windows
\* on, fetch_commits returning pages[window] for it: the result and the
\* number of fetch_commits calls made
RECURSIVE search_from(_, _, _, _, _)
search_from(op, pages, date, window, collected) ==
    LET turn == window_turn(op, pages[window], date, collected) IN
    IF turn.then = "continue" /\ window < Len(search_windows(op))
    THEN search_from(op, pages, date, window + 1, turn.collected)
    ELSE [result |-> turn.result, fetches |-> window]

pick_pre_death_commit(pages, death_date) ==
    search_from("pre", pages, death_date, 1, <<>>)

pick_post_revive_commit(pages, revive_date) ==
    search_from("post", pages, revive_date, 1, <<>>)

\* a list with the pre_morte record alone
row_snapshots_pre_only(repo_full_name, pre_commit, post_commit) ==
    <<[repo |-> repo_full_name, snapshot |-> "pre_morte",
       commit |-> pre_commit.sha]>>

\* the list prepare_snapshots returns
row_snapshots(repo_full_name, pre_commit, post_commit) ==
    <<[repo |-> repo_full_name, snapshot |-> "pre_morte",
       commit |-> pre_commit.sha],
      [repo |-> repo_full_name, snapshot |-> "pos_revive",
       commit |-> post_commit.sha]>>

\* the git commands of prepare_snapshots, in order: clone_snapshot and
\* checkout_commit of pre_morte, then of pos_revive
GIT_STEPS == 4

\* what prepare_snapshots did and gave
Prepared(exc, snapshots, dates, pre, post_searched, git_steps) ==
    [exc |-> exc, snapshots |-> snapshots, death |-> dates.death,
     revive |-> dates.revive, parsed |-> dates.exc = "", pre |-> pre,
     post_searched |-> post_searched, git_steps |-> git_steps]

NoDates == [exc |-> "none", death |-> 0, revive |-> 0]

\* prepare_snapshots(row, ...) where the remote answers the fetches of the
\* two selectors with env.pre and env.post and the env.git_fails-th git
\* command fails (none if 0)
prepare_snapshots(row, env) ==
    LET repo_full_name == row.nome IN
    IF ~falsy_name(repo_full_name) /\ repo_full_name = "nan"
    THEN Prepared("TypeError", <<>>, NoDates, "none", FALSE, 0)
    ELSE IF falsy_name(repo_full_name) \/ no_slash(repo_full_name)
    THEN Prepared("PipelineError", <<>>, NoDates, "none", FALSE, 0)
    ELSE LET dates == parse_dates(row) IN
    IF dates.exc # ""
    THEN Prepared(dates.exc, <<>>, dates, "none", FALSE, 0)
    ELSE LET pre_commit == pick_pre_death_commit(env.pre, dates.death).result IN
    IF pre_commit.kind \notin {"commit", "none"}
    THEN Prepared(pre_commit.kind, <<>>, dates, pre_commit.kind, FALSE, 0)
    ELSE IF pre_commit.kind = "none"
    THEN Prepared("PipelineError", <<>>, dates, "none", FALSE, 0)
    ELSE LET post_commit ==
                 pick_post_revive_commit(env.post, dates.revive).result IN
    IF post_commit.kind \notin {"commit", "none"}
    THEN Prepared(post_commit.kind, <<>>, dates, "commit", TRUE, 0)
    ELSE IF post_commit.kind = "none"
    THEN Prepared("PipelineError", <<>>, dates, "commit", TRUE, 0)
    ELSE IF env.git_fails # 0
    THEN Prepared("CalledProcessError", <<>>, dates, "commit", TRUE,
                  env.git_fails)
    ELSE Prepared("",
                  row_snapshots(repo_full_name, pre_commit.commit,
                                post_commit.commit),
                  dates, "commit", TRUE, GIT_STEPS)

\* `except (PipelineError, subprocess.CalledProcessError)` of main
caught(exc) == exc \in {"PipelineError", "CalledProcessError"}

\* the day of the revival date of the rows
ReviveDay == 800

Rows ==
    [nome : RepoNames,
     morte : {EmptyCell, GarbledCell, DateCell(ReviveDay - 200),
              DateCell(ReviveDay), DateCell(ReviveDay + 5)},
     revive : {EmptyCell, GarbledCell, DateCell(ReviveDay)}]

\* the page the remote has for every window of pick_pre_death_commit:
\* none, a commit at death_date, a node without committedDate, a node
\* whose date does not parse
PrePageKinds == {"empty", "commit", "nodate", "garbled"}

pre_page(kind, death_date) ==
    CASE kind = "empty" -> <<>>
      [] kind = "commit" -> <<[oid |-> 1, committedDate |-> IsoDate(death_date)]>>
      [] kind = "nodate" -> <<[oid |-> 2, committedDate |-> MissingDate]>>
      [] kind = "garbled" -> <<[oid |-> 3, committedDate |-> GarbledDate]>>

\* the page the remote has for every window of pick_post_revive_commit:
\* none, MIN_COMMITS commits from revive_date on, a node whose date does
\* not parse
PostPageKinds == {"empty", "commits", "garbled"}

post_page(kind, revive_date) ==
    CASE kind = "empty" -> <<>>
      [] kind = "commits" ->
            [i \in 1..MIN_COMMITS |->
                [oid |-> 10 + i, committedDate |-> IsoDate(revive_date + i - 1)]]
      [] kind = "garbled" -> <<[oid |-> 4, committedDate |-> GarbledDate]>>

\* what the remote and git hold for one row
Env(row, pre_kind, post_kind, git_fails) ==
    LET dates == parse_dates(row) IN
    [pre |-> [w \in 1..Len(PRE_WINDOWS) |-> pre_page(pre_kind, dates.death)],
     post |-> [w \in 1..Len(POST_WINDOWS) |-> post_page(post_kind, dates.revive)],
     git_fails |-> git_fails]

NoRow == [repo |-> "", exc |-> "none", death |-> 0, revive |-> 0,
          parsed |-> FALSE, pre |-> "none", post_searched |-> FALSE,
          git_steps |-> 0, before |-> <<>>, added |-> 0]

\* main is not running
IdleMain ==
    /\ m_rows = 0
    /\ m_done = 0
    /\ m_pc = "idle"
    /\ m_snapshot_records = <<>>
    /\ m_last = NoRow

\* main after the configuration checks and load_dataframe, before the
\* loop over records
InitMain ==
    /\ m_rows \in 1..MaxRows
    /\ m_done = 0
    /\ m_pc = "loop"
    /\ m_snapshot_records = <<>>
    /\ m_last = NoRow

\* one turn of `for row_dict in records`: prepare_snapshots, then extend
\* or the except clause; an exception the clause does not name leaves main
ProcessRow ==
    /\ m_pc = "loop"
    /\ m_done < m_rows
    /\ \E row \in Rows, pre_kind \in PrePageKinds, post_kind \in PostPageKinds,
          git_fails \in 0..GIT_STEPS :
          \E out \in {prepare_snapshots(row, Env(row, pre_kind, post_kind,
                                                  git_fails))} :
             /\ m_snapshot_records' =
                    IF out.exc = "" THEN m_snapshot_records \o out.snapshots
                    ELSE m_snapshot_records
             /\ m_pc' = IF out.exc = "" \/ caught(out.exc)
                        THEN IF m_done + 1 = m_rows THEN "done" ELSE "loop"
                        ELSE "crashed"
             /\ m_last' = [repo |-> row.nome, exc |-> out.exc,
                           death |-> out.death, revive |-> out.revive,
                           parsed |-> out.parsed, pre |-> out.pre,
                           post_searched |-> out.post_searched,
                           git_steps |-> out.git_steps,
                           before |-> m_snapshot_records,
                           added |-> IF out.exc = "" THEN Len(out.snapshots)
                                     ELSE 0]
    /\ m_done' = m_done + 1
    /\ UNCHANGED m_rows
    /\ UNCHANGED not_m

NextMain == ProcessRow

--------------------------------------------------------------------------
(* Specifications: one per component, the other components idle *)

\* one call of run_query, of any of the three scripts, against any answers
InitSpecQuery == InitQuery /\ IdleClassifier /\ IdleSelector /\ IdleMain

SpecQuery == InitSpecQuery /\ [][NextQuery]_vars

\* one call of detect_inactivity_periods or of analyze_repo on any repository
InitSpecClassifier ==
    InitClassifier /\ IdleQuery /\ IdleSelector /\ IdleMain

SpecClassifier == InitSpecClassifier /\ [][NextClassifier]_vars

\* one call of a selector whose fetches return any page
InitSpecAnyPage == InitAnyPage /\ IdleQuery /\ IdleClassifier /\ IdleMain

SpecAnyPage == InitSpecAnyPage /\ [][NextAnyPage]_vars

\* two calls of a selector against an unchanged remote history
InitSpecRemote == InitRemote /\ IdleQuery /\ IdleClassifier /\ IdleMain

SpecRemote == InitSpecRemote /\ [][NextRemote]_vars

\* the loop of main of pipeline-pilar3.py over any rows, the remote and git
\* answering in any way
InitSpecMain == InitMain /\ IdleQuery /\ IdleClassifier /\ IdleSelector

SpecMain == InitSpecMain /\ [][NextMain]_vars

--------------------------------------------------------------------------
(* Claims about run_query *)

\* what the endpoint answers to the requests of this call, from the first on
Answers == q_received \o q_pending

IsData(response) == response.status = 200 /\ ~response.errors

IsErrors(response) == response.status = 200 /\ response.errors

\* the first k answers all have this status
LeadingStatus(k, status) ==
    /\ k <= Len(Answers)
    /\ \A i \in 1..k : Answers[i].status = status

\* C6 (as stated): in pipeline-pilar3.py a 403 is not counted against
\* RETRY_LIMIT: when the endpoint answers any number of 403 and then a 200
\* without errors, the call returns the data of that 200.
C6_RateLimitNotCounted ==
    \A k \in 0..(Len(Answers) - 1) :
        ( /\ q_script = "pilar3"
          /\ LeadingStatus(k, 403)
          /\ IsData(Answers[k + 1])
          /\ q_pc = "done" )
        => q_result = Answers[k + 1].data

\* C6 (amended): in pipeline-pilar3.py a 403 is counted against RETRY_LIMIT
\* like any other failed attempt: fewer than RETRY_LIMIT 403 followed by a
\* 200 without errors return the data of that 200, and a call whose first
\* RETRY_LIMIT responses are 403 returns None after exactly RETRY_LIMIT
\* requests.
C6_RateLimitCounted ==
    q_script = "pilar3" =>
        /\ \A k \in 0..(Len(Answers) - 1) :
              ( /\ k < RETRY_LIMIT
                /\ LeadingStatus(k, 403)
                /\ IsData(Answers[k + 1])
                /\ q_pc = "done" )
              => /\ q_result = Answers[k + 1].data
                 /\ Len(q_received) = k + 1
        /\ ( /\ LeadingStatus(RETRY_LIMIT, 403)
             /\ Len(q_received) >= RETRY_LIMIT )
           => /\ q_pc = "done"
              /\ q_result = None
              /\ Len(q_received) = RETRY_LIMIT

\* C6 witness: three 403 in a row used up the attempts of a pilar3 call
\* although the endpoint had a 200 without errors ready as its next answer.
C6_Witness ==
    /\ q_script = "pilar3"
    /\ q_pc = "done"
    /\ Len(q_received) = RETRY_LIMIT
    /\ \A i \in 1..RETRY_LIMIT : q_received[i].status = 403
    /\ q_pending # <<>>
    /\ IsData(Head(q_pending))
    /\ q_result = None

\* C7 (as stated): against an endpoint that keeps answering 502, run_query
\* of each of the three scripts stops after at most 3 requests and returns
\* None.
C7_GivesUpOn502 ==
    (\A i \in 1..Len(q_received) : q_received[i].status = 502)
    => /\ Len(q_received) <= RETRY_LIMIT
       /\ Len(q_received) = RETRY_LIMIT => (q_pc = "done" /\ q_result = None)

\* C8: a 200 response with an 'errors' field ends the call at once: it is
\* the last response the call receives and the call returns None, in every
\* script, at every attempt and after any earlier responses.
C8_ErrorsEndTheCall ==
    \A i \in 1..Len(q_received) :
        IsErrors(q_received[i])
        => /\ i = Len(q_received)
           /\ q_pc = "done"
           /\ q_result = None

\* C8 witness: the second response of a call reports errors, one attempt
\* is left and the endpoint has more answers, and the call has returned.
C8_Witness ==
    /\ q_script \in {"pilar3", "fase1"}
    /\ Len(q_received) = 2
    /\ q_received[1].status = 502
    /\ IsErrors(q_received[2])
    /\ q_attempt < RETRY_LIMIT
    /\ q_pending # <<>>
    /\ IsData(Head(q_pending))
    /\ q_pc = "done"
    /\ q_result = None

--------------------------------------------------------------------------
(* Claims about detect_inactivity_periods and analyze_repo *)

\* every node of the repository carries a date that parses
WellFormed ==
    /\ d_repo.defaultBranchRef
    /\ \A i \in 1..Len(d_repo.nodes) : Parses(d_repo.nodes[i])

\* the commit timestamps of the repository, in the order of its nodes
Timestamps == [i \in 1..Len(d_repo.nodes) |-> d_repo.nodes[i].committedDate.t]

\* the i-th earliest of the timestamps (t[i] of the ascending-sorted input)
Earliest(i) ==
    CHOOSE v \in Range(Timestamps) :
        /\ Cardinality({j \in 1..Len(Timestamps) : Timestamps[j] < v}) < i
        /\ i <= Cardinality({j \in 1..Len(Timestamps) : Timestamps[j] <= v})

\* the places i where t[i] - t[i-1] is at least `threshold` whole days
Gaps(threshold) ==
    {i \in 2..Len(Timestamps) :
        (Earliest(i) - Earliest(i - 1)) \div DayTicks >= threshold}

\* the k-th gap, counted from the earliest
Gap(threshold, k) ==
    CHOOSE i \in Gaps(threshold) :
        Cardinality({j \in Gaps(threshold) : j <= i}) = k

\* C9: detect_inactivity_periods returns, in chronological order, exactly
\* the pairs (t[i-1], t[i]) of consecutive timestamps of the sorted input
\* that lie at least threshold_days whole days apart (so a gap of exactly
\* threshold_days is reported and one of a tick less is not), and every
\* returned pair has start < end.
C9_PeriodsAreTheLongGaps ==
    d_call = "detect" =>
        /\ Len(d_periods) = Cardinality(Gaps(d_threshold))
        /\ \A k \in 1..Len(d_periods) :
              /\ d_periods[k] = <<Earliest(Gap(d_threshold, k) - 1),
                                  Earliest(Gap(d_threshold, k))>>
              /\ d_periods[k][1] < d_periods[k][2]

\* C9 witness: an unsorted list of three timestamps, the first two a tick
\* less than THRESHOLD_DAYS days apart and the last two exactly
\* THRESHOLD_DAYS days apart, has given the one period flanking the second
\* gap.
C9_Witness ==
    /\ d_call = "detect"
    /\ d_threshold = THRESHOLD_DAYS
    /\ Len(d_commit_dates) = 3
    /\ Timestamps # d_commit_dates
    /\ d_commit_dates[2] - d_commit_dates[1] = THRESHOLD_DAYS * DayTicks - 1
    /\ d_commit_dates[3] - d_commit_dates[2] = THRESHOLD_DAYS * DayTicks
    /\ d_periods = << <<d_commit_dates[2], d_commit_dates[3]>> >>

\* C10 (as stated): for a repository with at least one inactivity interval,
\* analyze_repo of both scripts gives a record whose revival date is the
\* (day of the) end of the first interval if some commit is strictly later
\* than that end, and None otherwise.
C10_RevivalOnlyIfConfirmed ==
    ( /\ d_call \in {"analyze_fase1", "analyze_unificado"}
      /\ WellFormed
      /\ Gaps(THRESHOLD_DAYS) # {} )
    => LET end == Earliest(Gap(THRESHOLD_DAYS, 1))
       IN /\ d_analysis.kind = "record"
          /\ d_analysis.ressurreicao =
                IF \E j \in 1..Len(Timestamps) : Timestamps[j] > end
                THEN Some(end \div DayTicks) ELSE Null

\* C11 (as stated): for a repository with a non-empty commit history
\* without any gap of THRESHOLD_DAYS days or more, analyze_repo of both
\* scripts gives a record, not the no-data value None, with death date
\* None, revival date None and died-again 0.
C11_NeverInactiveRecord ==
    ( /\ d_call \in {"analyze_fase1", "analyze_unificado"}
      /\ WellFormed
      /\ d_repo.nodes # <<>>
      /\ Gaps(THRESHOLD_DAYS) = {} )
    => /\ d_analysis.kind = "record"
       /\ d_analysis.morte = Null
       /\ d_analysis.ressurreicao = Null
       /\ d_analysis.morreu_de_novo = 0

--------------------------------------------------------------------------
(* Claims about the selectors, whatever pages the endpoint returns *)

\* a selector call came back (or is still looping) without an exception
NoException == s_result.kind \in {"commit", "none"}

\* the nodes fetched so far that are commits on or before death_date + 1 day
PreQualifying ==
    {node \in s_seen :
        Parses(node) /\ node.committedDate.t <= s_date + 1 * DayTicks}

\* C1: pick_pre_death_commit never returns a commit whose committed_at is
\* later than death_date + 1 day, whatever the endpoint returned for any
\* of the windows
C1_NeverAfterBoundary ==
    (s_op = "pre" /\ s_result.kind = "commit")
        => s_result.commit.committed_at <= s_date + 1 * DayTicks

\* a commit exactly on the boundary was returned though the endpoint also
\* returned a later one
C1_Witness ==
    /\ s_op = "pre"
    /\ s_pc = "done"
    /\ s_result.kind = "commit"
    /\ s_result.commit.committed_at = s_date + 1 * DayTicks
    /\ \E node \in s_seen :
           Parses(node) /\ node.committedDate.t > s_date + 1 * DayTicks

\* C2: pick_pre_death_commit fetches the windows 90, 180, 365, 730 days in
\* that order, goes on to a wider window only while no fetched commit is on
\* or before death_date + 1 day, returns a latest one of the qualifying
\* commits of the first window that has any, and returns None exactly when
\* all four windows were fetched and none had a qualifying commit
C2_LatestOfFirstSufficientWindow ==
    (s_op = "pre" /\ s_pc # "idle" /\ NoException) =>
        /\ \A i \in 1..Len(s_fetched) :
               s_fetched[i] = [since |-> s_date - <<90, 180, 365, 730>>[i] * DayTicks,
                               until |-> s_date + 1 * DayTicks]
        /\ s_pc = "loop" => /\ PreQualifying = {}
                            /\ Len(s_fetched) < 4
        /\ (s_pc = "done" /\ s_result.kind = "commit") =>
               \E node \in PreQualifying :
                   /\ node.oid = s_result.commit.sha
                   /\ node.committedDate.t = s_result.commit.committed_at
                   /\ \A other \in PreQualifying :
                          other.committedDate.t <= node.committedDate.t
        /\ (s_pc = "done" /\ s_result.kind = "none") =>
               /\ Len(s_fetched) = 4
               /\ PreQualifying = {}

\* the second window gave two qualifying commits of different dates and
\* the later one was returned
C2_Witness ==
    /\ s_op = "pre"
    /\ s_pc = "done"
    /\ s_result.kind = "commit"
    /\ Len(s_fetched) = 2
    /\ \E node \in PreQualifying :
           node.committedDate.t < s_result.commit.committed_at

\* the nodes fetched so far that are commits on or after revive_date
PostQualifying ==
    {node \in s_seen :
        Parses(node) /\ node.oid # NoOid /\ node.committedDate.t >= s_date}

\* the commits accumulated with a committed_at earlier than t
Earlier(t) == {i \in 1..Len(s_collected) : s_collected[i].committed_at < t}

\* the commits accumulated with a committed_at not later than t
NotLater(t) == {i \in 1..Len(s_collected) : s_collected[i].committed_at <= t}

\* C3: pick_post_revive_commit fetches the windows 30, 90, 180, 365, 730
\* days in that order and accumulates the fetched commits on or after
\* revive_date, one per hash; it goes on while fewer than 10 are
\* accumulated, returns the 10th earliest of them at the first window after
\* which there are at least 10, and returns None exactly when all five
\* windows were fetched and fewer than 10 are accumulated
C3_TenthEarliestAccumulated ==
    (s_op = "post" /\ s_pc # "idle" /\ NoException) =>
        /\ \A i \in 1..Len(s_fetched) :
               s_fetched[i] = [since |-> s_date,
                               until |-> s_date + <<30, 90, 180, 365, 730>>[i] * DayTicks]
        /\ {[oid |-> s_collected[i].sha, t |-> s_collected[i].committed_at] :
                i \in 1..Len(s_collected)}
             = {[oid |-> node.oid, t |-> node.committedDate.t] :
                    node \in PostQualifying}
        /\ \A i, j \in 1..Len(s_collected) :
               s_collected[i].sha = s_collected[j].sha => i = j
        /\ s_pc = "loop" => /\ Len(s_collected) < 10
                            /\ Len(s_fetched) < 5
        /\ (s_pc = "done" /\ s_result.kind = "commit") =>
               /\ Len(s_collected) >= 10
               /\ s_result.commit \in Range(s_collected)
               /\ Cardinality(Earlier(s_result.commit.committed_at)) <= 9
               /\ Cardinality(NotLater(s_result.commit.committed_at)) >= 10
        /\ (s_pc = "done" /\ s_result.kind = "none") =>
               /\ Len(s_fetched) = 5
               /\ Len(s_collected) < 10

\* the tenth commit was reached in a later window, some commits were
\* fetched twice, and the commit returned is not the tenth accumulated
C3_Witness ==
    /\ s_op = "post"
    /\ s_pc = "done"
    /\ s_result.kind = "commit"
    /\ Len(s_fetched) >= 3
    /\ Len(s_collected) > 10
    /\ s_collected[10] # s_result.commit

--------------------------------------------------------------------------
(* Claims about two calls of a selector against an unchanged history *)

\* the second call of the selector has come back
CalledTwice == s_call = 2 /\ s_pc = "done"

\* the commits of the remote history from revive_date to `window` days on
InWindow(window) ==
    {i \in 1..Len(r_history) :
        /\ r_history[i].committedDate.t >= s_date
        /\ r_history[i].committedDate.t <= s_date + window * DayTicks}

\* no window of the ladder of pick_post_revive_commit holds more commits
\* than one fetch_commits call asks for
NoWindowOverfull ==
    \A window \in {30, 90, 180, 365, 730} : Cardinality(InWindow(window)) <= 100

FetchedDays(i) ==
    IF s_op = "pre" THEN (s_date - s_fetched[i].since) \div DayTicks
    ELSE (s_fetched[i].until - s_date) \div DayTicks

\* the fetch_commits calls made so far by this call of the selector are
\* at most 4 (pre-death) or 5 (post-revival), for windows of its ladder,
\* each wider than the one before, and a call that has its commit is over
FetchesWithinLadder ==
    s_pc # "idle" =>
        /\ Len(s_fetched) <= (IF s_op = "pre" THEN 4 ELSE 5)
        /\ \A i \in 1..Len(s_fetched) :
              FetchedDays(i) \in (IF s_op = "pre" THEN {90, 180, 365, 730}
                                  ELSE {30, 90, 180, 365, 730})
        /\ \A i, j \in 1..Len(s_fetched) : i < j => FetchedDays(i) < FetchedDays(j)
        /\ s_result.kind = "commit" => s_pc = "done"

\* a step that makes a fetch_commits call is a step of a call that has
\* not found its result, and adds one window to those fetched
FetchOnlyWhileSearching ==
    (s_call' = s_call /\ s_fetched' # s_fetched) =>
        /\ s_pc = "loop"
        /\ s_result.kind = "none"
        /\ Len(s_fetched') = Len(s_fetched) + 1
        /\ SubSeq(s_fetched', 1, Len(s_fetched)) = s_fetched

\* C14: one call of pick_pre_death_commit makes at most 4 fetch_commits
\* calls and one call of pick_post_revive_commit at most 5, always for
\* windows of increasing width, and no fetch_commits call is made once the
\* result has been found.
C14_FetchesBoundedAndOrdered ==
    []FetchesWithinLadder /\ [][FetchOnlyWhileSearching]_vars

\* with 7 commits within 30 days and 13 within 90 days of revive_date the
\* post-revival search is over with a commit after the 30-day and the
\* 90-day window, the wider windows not fetched
C14_Witness ==
    /\ s_op = "post"
    /\ s_call = 1
    /\ s_pc = "done"
    /\ s_unserved = 0
    /\ Cardinality(InWindow(30)) = 7
    /\ Cardinality(InWindow(90)) = 13
    /\ Cardinality(InWindow(180)) > 13
    /\ s_result.kind = "commit"
    /\ Len(s_fetched) = 2
    /\ FetchedDays(2) = 90

--------------------------------------------------------------------------
(* Claims about the rows of main of pipeline-pilar3.py *)

\* the record analyze_repo returned has its death date, if it has a
\* revival date, on a strictly earlier day
RecordDeathBeforeRevival ==
    ( /\ d_call \in {"analyze_fase1", "analyze_unificado"}
      /\ d_analysis.kind = "record"
      /\ d_analysis.ressurreicao # Null )
    => /\ d_analysis.morte # Null
       /\ d_analysis.morte[1] < d_analysis.ressurreicao[1]

\* C12 (as stated): whenever a revival date is set, the death date that
\* goes with it is strictly earlier, in every record analyze_repo returns
\* and in every (death, revive) pair parse_dates returns for any row.
C12_DeathBeforeRevival ==
    /\ RecordDeathBeforeRevival
    /\ m_last.parsed => m_last.death < m_last.revive

\* C13 (as stated): once main is in its loop over the rows, no failure
\* while one repository is processed ends the run: the loop comes to its
\* end only after every row was taken, and no exception leaves main.
C13_NoRowEndsTheRun ==
    /\ m_pc # "crashed"
    /\ m_pc = "done" => m_done = m_rows

\* C15: after any rows processed by main, snapshot_records is made of
\* pairs of adjacent records, 'pre_morte' then 'pos_revive' of one
\* repository; the latest row has added nothing or one such pair of its
\* repository to the records there were, and nothing but pairs of rows is
\* in the list; when its pre-death commit was not found, no post-revival
\* search was made and no git command run for it.
C15_SnapshotsComeInPairs ==
    m_pc # "idle" =>
        /\ \A k \in 1..Len(m_snapshot_records) :
              IF k % 2 = 1
              THEN /\ m_snapshot_records[k].snapshot = "pre_morte"
                   /\ k + 1 <= Len(m_snapshot_records)
                   /\ m_snapshot_records[k + 1].repo = m_snapshot_records[k].repo
              ELSE m_snapshot_records[k].snapshot = "pos_revive"
        /\ Len(m_snapshot_records) <= 2 * m_done
        /\ m_last.added \in {0, 2}
        /\ Len(m_snapshot_records) = Len(m_last.before) + m_last.added
        /\ SubSeq(m_snapshot_records, 1, Len(m_last.before)) = m_last.before
        /\ m_last.added = 2 =>
              m_snapshot_records[Len(m_snapshot_records)].repo = m_last.repo
        /\ m_last.pre # "commit" =>
              /\ ~m_last.post_searched
              /\ m_last.git_steps = 0
              /\ m_last.added = 0

\* a first row gave its pair of snapshots, and for a second row with a
\* valid name and dates the pre-death commit was not found
C15_Witness ==
    /\ m_done = 2
    /\ Len(m_snapshot_records) = 2
    /\ m_last.parsed
    /\ m_last.pre = "none"
    /\ m_last.exc = "PipelineError"
    /\ ~m_last.post_searched

=============================================================================
